---- MODULE Spec2Model ----
(***************************************************************************)
(* Passport Power Index dashboard (src/app.py).                            *)
(*                                                                         *)
(* At import the module loads a table df of (origin, destination,          *)
(* requirement) rows and extends the colour registry requirement_colors.   *)
(* Afterwards the only handler is the Dash callback update_output, which   *)
(* filters df by the selected origin and derives the pie distribution, the *)
(* passport statistics and the grouped country list.                       *)
(*                                                                         *)
(* Strings whose characters matter (requirements: substring search and     *)
(* display names; destinations: sort order) are sequences of one-character *)
(* strings.  Origins, which are only compared for equality, and colours    *)
(* are plain strings.  The cells of df are strings, as the code treats     *)
(* them (x.replace, .str.contains, sorted).  Floats are fixed-point: the   *)
(* power score and the percentages are kept in tenths.                     *)
(***************************************************************************)
EXTENDS Integers, Sequences, FiniteSets, TLC

VARIABLES df, requirement_colors, phase, calls

vars == <<df, requirement_colors, phase, calls>>

-----------------------------------------------------------------------------
(* Characters and strings *)

UpperCase == <<"A","B","C","D","E","F","G","H","I","J","K","L","M",
               "N","O","P","Q","R","S","T","U","V","W","X","Y","Z">>

LowerCase == <<"a","b","c","d","e","f","g","h","i","j","k","l","m",
               "n","o","p","q","r","s","t","u","v","w","x","y","z">>

UpperSet == {UpperCase[i] : i \in 1..26}

LowerSet == {LowerCase[i] : i \in 1..26}

CharSet == UpperSet \cup LowerSet \cup {"_", " "}

LetterIndex(c) == CHOOSE i \in 1..26 : UpperCase[i] = c \/ LowerCase[i] = c

\* Code point of a character, the key by which Python orders strings.
Ord == [c \in CharSet |->
          IF c \in UpperSet THEN 64 + LetterIndex(c)
          ELSE IF c \in LowerSet THEN 96 + LetterIndex(c)
          ELSE IF c = "_" THEN 95 ELSE 32]

ToLower == [c \in CharSet |-> IF c \in UpperSet THEN LowerCase[LetterIndex(c)] ELSE c]

ToUpper == [c \in CharSet |-> IF c \in LowerSet THEN UpperCase[LetterIndex(c)] ELSE c]

lower(s) == [i \in 1..Len(s) |-> ToLower[s[i]]]

\* x.replace('_', ' ')
replace_underscore(s) == [i \in 1..Len(s) |-> IF s[i] = "_" THEN " " ELSE s[i]]

IsLetter(c) == c \in UpperSet \cup LowerSet

\* str.title(): a letter that follows a non-letter is upper-cased, any other
\* letter is lower-cased.
title(s) ==
    [i \in 1..Len(s) |->
        IF ~IsLetter(s[i]) THEN s[i]
        ELSE IF i = 1 \/ ~IsLetter(s[i - 1]) THEN ToUpper[s[i]]
        ELSE ToLower[s[i]]]

display_name_of(req) == title(replace_underscore(req))

\* re.search(pat, s, re.IGNORECASE) for a pattern without metacharacters.
str_contains(s, pat) ==
    \E k \in 1..(Len(s) - Len(pat) + 1) :
        lower(SubSeq(s, k, k + Len(pat) - 1)) = lower(pat)

\* Python's < on str: the first differing code point decides, a proper prefix
\* is smaller.
str_less(a, b) ==
    LET n    == IF Len(a) < Len(b) THEN Len(a) ELSE Len(b)
        diff == {i \in 1..n : a[i] # b[i]}
    IN  IF diff = {} THEN Len(a) < Len(b)
        ELSE LET k == CHOOSE i \in diff : \A j \in diff : i <= j
             IN  Ord[a[k]] < Ord[b[k]]

-----------------------------------------------------------------------------
(* The values of the data set *)

visa_free == <<"v","i","s","a","_","f","r","e","e">>

visa_on_arrival == <<"v","i","s","a","_","o","n","_","a","r","r","i","v","a","l">>

electronic_visa == <<"e","l","e","c","t","r","o","n","i","c","_","v","i","s","a">>

visa_required == <<"v","i","s","a","_","r","e","q","u","i","r","e","d">>

Electronic_Visa_Type == <<"E","l","e","c","t","r","o","n","i","c","_","V","i","s","a","_","T","y","p","e">>

no_admission == <<"n","o","_","a","d","m","i","s","s","i","o","n">>

electronic == <<"e","l","e","c","t","r","o","n","i","c">>

Albania == <<"A","l","b","a","n","i","a">>

Chad == <<"C","h","a","d">>

Niger == <<"N","i","g","e","r">>

Nigeria == <<"N","i","g","e","r","i","a">>

Oman == <<"O","m","a","n">>

Peru == <<"P","e","r","u">>

Qatar == <<"Q","a","t","a","r">>

Zambia == <<"Z","a","m","b","i","a">>

DefaultColor == "#808080"

\* requirement_colors as written in the source, before the data set is seen.
FixedColors ==
    (visa_free :> "#2ca25f") @@ (visa_on_arrival :> "#99d8c9") @@
    (electronic_visa :> "#f1b6da") @@ (visa_required :> "#d73027")

-----------------------------------------------------------------------------
(* Bounds of the model *)

\* Longest table enumerated exhaustively.
MaxRows == 3

\* Longest table enumerated when several sessions run the callback.
MaxSessionRows == 1

\* Number of browser sessions that may have a callback in flight.
NumSessions == 2

Sessions == 1..NumSessions

Origins == {"United States", "Kenya"}

\* Values the dropdown can send; "Nowhereland" is no origin of any table.
Selections == Origins \cup {"Nowhereland"}

\* Destinations of the enumerated tables; the fixtures hold more.
Destinations == {Zambia, Albania}

Requirements == {visa_free, visa_on_arrival, electronic_visa, visa_required,
                 Electronic_Visa_Type, no_admission}

Row(o, d, r) == [origin |-> o, destination |-> d, requirement |-> r]

Rows ==
    {Row("United States", d, r) : d \in Destinations, r \in Requirements}
    \cup {Row("Kenya", Albania, visa_required), Row("Kenya", Zambia, no_admission)}

TablesUpTo(n) == UNION {[1..k -> Rows] : k \in 0..n}

\* 3 visa_free, 2 visa_on_arrival, 1 electronic_visa, next to a visa_required
\* row and a row of an unknown category; Zambia, Albania, Qatar share a
\* category and are out of order, as are Nigeria and Niger.
ScoreFixture ==
    << Row("United States", Zambia,  visa_free),
       Row("United States", Albania, visa_free),
       Row("United States", Qatar,   visa_free),
       Row("United States", Nigeria, visa_on_arrival),
       Row("United States", Niger,   visa_on_arrival),
       Row("United States", Chad,    electronic_visa),
       Row("United States", Oman,    visa_required),
       Row("United States", Peru,    no_admission) >>

\* A mixed-case category that contains "electronic", next to exact ones.
ElectronicFixture ==
    << Row("Kenya", Qatar,   Electronic_Visa_Type),
       Row("Kenya", Zambia,  electronic_visa),
       Row("United States", Albania, visa_free),
       Row("Kenya", Albania, visa_required),
       Row("Kenya", Niger,   Electronic_Visa_Type) >>

Fixtures == {ScoreFixture, ElectronicFixture}

Tables == TablesUpTo(MaxRows) \cup Fixtures

SessionTables == TablesUpTo(MaxSessionRows) \cup Fixtures

-----------------------------------------------------------------------------
(* Module-level code: the registry *)

Front(s) == SubSeq(s, 1, Len(s) - 1)

Last(s) == s[Len(s)]

Column(rows, name) == [i \in 1..Len(rows) |-> rows[i][name]]

RECURSIVE unique(_)
\* Series.unique(): the distinct values in order of first appearance.
unique(s) ==
    IF s = <<>> THEN <<>>
    ELSE LET u == unique(Front(s))
         IN  IF \E i \in 1..Len(u) : u[i] = Last(s) THEN u ELSE Append(u, Last(s))

\* A mutation: the loop stops after the first requirement.
register_colors_first(colors, unique_requirements) ==
    IF unique_requirements = <<>> THEN colors
    ELSE LET req == Head(unique_requirements)
         IN  IF req \notin DOMAIN colors THEN colors @@ (req :> DefaultColor) ELSE colors

RECURSIVE register_colors(_, _)
\* for req in unique_requirements: if req not in requirement_colors: ...
register_colors(colors, unique_requirements) ==
    IF unique_requirements = <<>> THEN colors
    ELSE LET req == Head(unique_requirements)
         IN  register_colors(
                 IF req \notin DOMAIN colors THEN colors @@ (req :> DefaultColor)
                 ELSE colors,
                 Tail(unique_requirements))

-----------------------------------------------------------------------------
(* update_output: the derived views *)

\* df[df['origin'] == selected_country]
filter_origin(table, selected_country) ==
    SelectSeq(table, LAMBDA row : row.origin = selected_country)

\* len(filtered_data[filtered_data['requirement'] == req])
count_equal(filtered_data, req) ==
    Len(SelectSeq(filtered_data, LAMBDA row : row.requirement = req))

\* A mutation: case=False dropped, the search is case-sensitive.
count_contains_case_sensitive(filtered_data, pat) ==
    Len(SelectSeq(filtered_data,
            LAMBDA row : \E k \in 1..(Len(row.requirement) - Len(pat) + 1) :
                             SubSeq(row.requirement, k, k + Len(pat) - 1) = pat))

\* A mutation: the pattern is 'visa' instead of the one given.
count_contains_visa(filtered_data, pat) ==
    Len(SelectSeq(filtered_data,
            LAMBDA row : str_contains(row.requirement, <<"v","i","s","a">>)))

\* len(filtered_data[filtered_data['requirement'].str.contains(pat, case=False, na=False)])
\* (na=False decides missing cells only; the cells here are all strings.)
count_contains(filtered_data, pat) ==
    Len(SelectSeq(filtered_data, LAMBDA row : str_contains(row.requirement, pat)))

RECURSIVE sort_by_count(_)
\* Descending by count; equal counts keep their order of first appearance.
sort_by_count(s) ==
    IF s = <<>> THEN <<>>
    ELSE LET t == sort_by_count(Front(s))
             x == Last(s)
             k == Cardinality({i \in 1..Len(t) : t[i].count >= x.count})
         IN  SubSeq(t, 1, k) \o <<x>> \o SubSeq(t, k + 1, Len(t))

\* A mutation: counts distinct destinations (nunique) instead of rows.
value_counts_nunique(filtered_data) ==
    LET u == unique(Column(filtered_data, "requirement"))
    IN  sort_by_count([i \in 1..Len(u) |->
            [requirement |-> u[i],
             count |-> Cardinality({filtered_data[j].destination :
                           j \in {n \in DOMAIN filtered_data :
                                      filtered_data[n].requirement = u[i]}})]])

\* filtered_data['requirement'].value_counts().reset_index()
value_counts(filtered_data) ==
    LET u == unique(Column(filtered_data, "requirement"))
    IN  sort_by_count([i \in 1..Len(u) |->
            [requirement |-> u[i], count |-> count_equal(filtered_data, u[i])]])

\* A mutation: visa on arrival weighs 0.5 like the electronic visa.
power_score_flat(visa_free_count, visa_on_arrival_count, e_visa_count) ==
    10 * visa_free_count + 5 * visa_on_arrival_count + 5 * e_visa_count

\* visa_free_count + (0.7 * visa_on_arrival_count) + (0.5 * e_visa_count), in tenths
power_score_of(visa_free_count, visa_on_arrival_count, e_visa_count) ==
    10 * visa_free_count + 7 * visa_on_arrival_count + 5 * e_visa_count

\* f"{count/total_countries*100:.1f}" in tenths of a percent, total_countries # 0.
\* Rounds to the nearest tenth; no tie arises while total_countries < 32.
percentage(count, total_countries) ==
    (2000 * count + total_countries) \div (2 * total_countries)

\* A mutation: the requirement mask is forgotten.
group_destinations_all(filtered_data, req) ==
    Column(filtered_data, "destination")

\* filtered_data[filtered_data['requirement'] == req]['destination'].tolist()
group_destinations(filtered_data, req) ==
    Column(SelectSeq(filtered_data, LAMBDA row : row.requirement = req), "destination")

\* A mutation: the countries are listed as tolist() gave them.
sorted_unsorted(countries) == countries

RECURSIVE sorted(_)
\* sorted(countries): stable, ascending by str's <.
sorted(countries) ==
    IF countries = <<>> THEN <<>>
    ELSE LET t == sorted(Front(countries))
             x == Last(countries)
             k == Cardinality({i \in 1..Len(t) : ~str_less(x, t[i])})
         IN  SubSeq(t, 1, k) \o <<x>> \o SubSeq(t, k + 1, Len(t))

-----------------------------------------------------------------------------
(* update_output: one invocation *)

\* The locals of one invocation of update_output.  pc is the place the
\* invocation has reached: "idle" (not invoked), "filtered" (line 94 done),
\* "aggregated" (lines 134-178 done), "returned" (line 249) or "raised"
\* (ZeroDivisionError at line 187).  A local not yet assigned is empty or 0.
IdleCall ==
    [pc |-> "idle", selected_country |-> "", filtered_data |-> <<>>,
     requirement_counts |-> <<>>, total_countries |-> 0,
     visa_free_count |-> 0, visa_on_arrival_count |-> 0, e_visa_count |-> 0,
     visa_required_count |-> 0, power_score |-> 0, passport_stats |-> <<>>,
     categories |-> <<>>, list_components |-> <<>>]

\* Line 94 (the map of lines 97-131 is drawn from filtered_data as it is).
begin_call(table, selected_country) ==
    [IdleCall EXCEPT !.pc = "filtered",
                     !.selected_country = selected_country,
                     !.filtered_data = filter_origin(table, selected_country)]

\* Lines 134-178.
aggregate(c) ==
    LET fd   == c.filtered_data
        vf   == count_equal(fd, visa_free)
        voa  == count_equal(fd, visa_on_arrival)
        ev   == count_contains(fd, electronic)
    IN  [c EXCEPT !.pc = "aggregated",
                  !.requirement_counts = value_counts(fd),
                  !.total_countries = Len(fd),
                  !.visa_free_count = vf,
                  !.visa_on_arrival_count = voa,
                  !.e_visa_count = ev,
                  !.visa_required_count = count_equal(fd, visa_required),
                  !.power_score = power_score_of(vf, voa, ev)]

\* Lines 181-220; evaluated only when total_countries # 0.
passport_stats_of(c) ==
    [visa_free_pct       |-> percentage(c.visa_free_count, c.total_countries),
     visa_on_arrival_pct |-> percentage(c.visa_on_arrival_count, c.total_countries),
     e_visa_pct          |-> percentage(c.e_visa_count, c.total_countries),
     visa_required_pct   |-> percentage(c.visa_required_count, c.total_countries),
     power_score         |-> c.power_score]

\* A mutation: the dict is keyed by the fixed categories as well.
categories_of_fixed(c) ==
    [req \in {c.requirement_counts[i].requirement : i \in 1..Len(c.requirement_counts)}
             \cup DOMAIN FixedColors
        |-> group_destinations(c.filtered_data, req)]

\* Lines 223-226: a dict keyed by the categories of requirement_counts.
categories_of(c) ==
    [req \in {c.requirement_counts[i].requirement : i \in 1..Len(c.requirement_counts)}
        |-> group_destinations(c.filtered_data, req)]

\* Lines 228-247: one component per item of categories, in insertion order.
list_components_of(c, categories, colors) ==
    [i \in 1..Len(c.requirement_counts) |->
        LET req == c.requirement_counts[i].requirement
        IN  [display_name |-> display_name_of(req),
             color        |-> IF req \in DOMAIN colors THEN colors[req] ELSE "#808080",
             count        |-> Len(categories[req]),
             countries    |-> sorted(categories[req])]]

\* Lines 181-249.  The first division by total_countries is at line 187.
render(c, colors) ==
    IF c.total_countries = 0
    THEN [c EXCEPT !.pc = "raised"]
    ELSE LET categories == categories_of(c)
         IN  [c EXCEPT !.pc = "returned",
                       !.passport_stats = passport_stats_of(c),
                       !.categories = categories,
                       !.list_components = list_components_of(c, categories, colors)]

\* The whole callback, lines 92-249.
update_output(table, colors, selected_country) ==
    render(aggregate(begin_call(table, selected_country)), colors)

-----------------------------------------------------------------------------
(* Actions *)

Init ==
    /\ df = <<>>
    /\ requirement_colors = FixedColors
    /\ phase = "import"
    /\ calls = [s \in Sessions |-> IdleCall]

\* Line 7: pd.read_csv.
LoadDataset(tables) ==
    /\ phase = "import"
    /\ df' \in tables
    /\ phase' = "loaded"
    /\ UNCHANGED <<requirement_colors, calls>>

\* Lines 18-21.
RegisterColors ==
    /\ phase = "loaded"
    /\ requirement_colors' =
           register_colors(requirement_colors, unique(Column(df, "requirement")))
    /\ phase' = "serving"
    /\ UNCHANGED <<df, calls>>

\* The callback run from invocation to return or fault.
UpdateOutput(s, selected_country) ==
    /\ phase = "serving"
    /\ calls' = [calls EXCEPT ![s] = update_output(df, requirement_colors, selected_country)]
    /\ UNCHANGED <<df, requirement_colors, phase>>

\* A mutation: the filter of line 94 assigned to the global df.
BeginUpdateInPlace(s, selected_country) ==
    /\ phase = "serving"
    /\ calls[s].pc \in {"idle", "returned", "raised"}
    /\ calls' = [calls EXCEPT ![s] = begin_call(df, selected_country)]
    /\ df' = filter_origin(df, selected_country)
    /\ UNCHANGED <<requirement_colors, phase>>

\* A session's callback starts: line 94 reads the global df.
BeginUpdate(s, selected_country) ==
    /\ phase = "serving"
    /\ calls[s].pc \in {"idle", "returned", "raised"}
    /\ calls' = [calls EXCEPT ![s] = begin_call(df, selected_country)]
    /\ UNCHANGED <<df, requirement_colors, phase>>

\* Lines 134-178 work on the locals.
AggregateStep(s) ==
    /\ calls[s].pc = "filtered"
    /\ calls' = [calls EXCEPT ![s] = aggregate(calls[s])]
    /\ UNCHANGED <<df, requirement_colors, phase>>

\* Lines 181-249 read the global requirement_colors.
RenderStep(s) ==
    /\ calls[s].pc = "aggregated"
    /\ calls' = [calls EXCEPT ![s] = render(calls[s], requirement_colors)]
    /\ UNCHANGED <<df, requirement_colors, phase>>

Next ==
    \/ LoadDataset(Tables)
    \/ RegisterColors
    \/ \E selected_country \in Selections : UpdateOutput(1, selected_country)

Spec == Init /\ [][Next]_vars

NextSessions ==
    \/ LoadDataset(SessionTables)
    \/ RegisterColors
    \/ \E s \in Sessions, selected_country \in Selections : BeginUpdate(s, selected_country)
    \/ \E s \in Sessions : AggregateStep(s)
    \/ \E s \in Sessions : RenderStep(s)

SpecSessions == Init /\ [][NextSessions]_vars

-----------------------------------------------------------------------------
(* Vocabulary of the properties, taken from df directly *)

\* Positions in df of the rows of an origin.
FilteredRows(selected_country) == {i \in DOMAIN df : df[i].origin = selected_country}

RowsWith(selected_country, req) ==
    {i \in FilteredRows(selected_country) : df[i].requirement = req}

\* The requirement holds "electronic" in any letter case.
HasElectronic(req) ==
    \E k \in 0..(Len(req) - Len(electronic)) :
        \A j \in 1..Len(electronic) : ToLower[req[k + j]] = electronic[j]

ElectronicRows(selected_country) ==
    {i \in FilteredRows(selected_country) : HasElectronic(df[i].requirement)}

\* Number of occurrences of a value in a sequence.
Occurrences(seq, x) == Cardinality({j \in DOMAIN seq : seq[j] = x})

RECURSIVE SumCounts(_)
SumCounts(requirement_counts) ==
    IF requirement_counts = <<>> THEN 0
    ELSE Head(requirement_counts).count + SumCounts(Tail(requirement_counts))

RECURSIVE SumOver(_, _)
SumOver(f, keys) ==
    IF keys = {} THEN 0
    ELSE LET k == CHOOSE x \in keys : TRUE IN f[k] + SumOver(f, keys \ {k})

RECURSIVE LexLeq(_, _)
\* Lexicographic order on strings by code point.
LexLeq(a, b) ==
    IF a = <<>> THEN TRUE
    ELSE IF b = <<>> THEN FALSE
    ELSE IF Head(a) = Head(b) THEN LexLeq(Tail(a), Tail(b))
    ELSE Ord[Head(a)] < Ord[Head(b)]

Aggregated(c) == c.pc \in {"aggregated", "returned", "raised"}

Finished(c) == c.pc \in {"returned", "raised"}

Returned(c) == c.pc = "returned"

CategoriesOf(c) == {c.requirement_counts[i].requirement : i \in DOMAIN c.requirement_counts}

-----------------------------------------------------------------------------
(* Properties *)

\* C1: an invocation whose selection matches no origin of the table
\* (total = 0) raises no fault and returns total 0 with all four
\* percentages 0.
C1_EmptySelectionReturnsZeros ==
    \A s \in Sessions :
        LET c == calls[s]
        IN  (Finished(c) /\ FilteredRows(c.selected_country) = {}) =>
                /\ c.pc = "returned"
                /\ c.total_countries = 0
                /\ c.passport_stats.visa_free_pct = 0
                /\ c.passport_stats.visa_on_arrival_pct = 0
                /\ c.passport_stats.e_visa_pct = 0
                /\ c.passport_stats.visa_required_pct = 0

C5_RegistryCoversDataset ==
    phase = "serving" =>
        /\ \A i \in DOMAIN df : df[i].requirement \in DOMAIN requirement_colors
        /\ requirement_colors[visa_free] = "#2ca25f"
        /\ requirement_colors[visa_on_arrival] = "#99d8c9"
        /\ requirement_colors[electronic_visa] = "#f1b6da"
        /\ requirement_colors[visa_required] = "#d73027"
        /\ \A req \in DOMAIN requirement_colors :
               req \notin {visa_free, visa_on_arrival, electronic_visa, visa_required}
                   => requirement_colors[req] = "#808080"
        /\ \A s \in Sessions :
               Returned(calls[s]) =>
                   \A i \in DOMAIN calls[s].list_components :
                       LET req == calls[s].requirement_counts[i].requirement
                       IN  /\ req \in DOMAIN requirement_colors
                           /\ calls[s].list_components[i].color = requirement_colors[req]

C5_Witness ==
    /\ phase = "serving"
    /\ \E i, j \in DOMAIN df :
           /\ df[i].requirement = Electronic_Visa_Type
           /\ df[j].requirement = no_admission
    /\ \E s \in Sessions :
           /\ Returned(calls[s])
           /\ \E i \in DOMAIN calls[s].list_components :
                  calls[s].list_components[i].color = "#808080"
           /\ \E i \in DOMAIN calls[s].list_components :
                  calls[s].list_components[i].color = "#d73027"

\* C6: e_visa_count counts the filtered rows whose requirement holds
\* "electronic" in any letter case (Electronic_Visa_Type included); the
\* three other counts count the rows whose requirement is exactly
\* visa_free, visa_on_arrival, visa_required.
C6_CountsMatchRules ==
    /\ HasElectronic(Electronic_Visa_Type)
    /\ \A s \in Sessions :
        LET c   == calls[s]
            sel == c.selected_country
        IN  Aggregated(c) =>
                /\ c.e_visa_count = Cardinality(ElectronicRows(sel))
                /\ c.e_visa_count >= Cardinality(RowsWith(sel, Electronic_Visa_Type))
                                     + Cardinality(RowsWith(sel, electronic_visa))
                /\ c.visa_free_count = Cardinality(RowsWith(sel, visa_free))
                /\ c.visa_on_arrival_count = Cardinality(RowsWith(sel, visa_on_arrival))
                /\ c.visa_required_count = Cardinality(RowsWith(sel, visa_required))

C6_Witness ==
    \E s \in Sessions :
        /\ Aggregated(calls[s])
        /\ RowsWith(calls[s].selected_country, Electronic_Visa_Type) # {}
        /\ RowsWith(calls[s].selected_country, electronic_visa) # {}
        /\ calls[s].e_visa_count >= 2
        /\ calls[s].visa_required_count >= 1

\* C7: ten times power_score is 10 * visa_free rows + 7 * visa_on_arrival
\* rows + 5 * "electronic" rows of the selection; nothing else contributes.
C7_PowerScoreWeights ==
    \A s \in Sessions :
        LET c   == calls[s]
            sel == c.selected_country
        IN  Aggregated(c) =>
                /\ c.power_score = 10 * Cardinality(RowsWith(sel, visa_free))
                                   + 7 * Cardinality(RowsWith(sel, visa_on_arrival))
                                   + 5 * Cardinality(ElectronicRows(sel))
                /\ c.power_score = 10 * c.visa_free_count + 7 * c.visa_on_arrival_count
                                   + 5 * c.e_visa_count
                /\ Returned(c) => c.passport_stats.power_score = c.power_score

\* 3 visa_free, 2 visa_on_arrival, 1 electronic_visa give 4.9, whatever else
\* the selection holds.
C7_Witness ==
    \E s \in Sessions :
        /\ Returned(calls[s])
        /\ calls[s].visa_free_count = 3
        /\ calls[s].visa_on_arrival_count = 2
        /\ calls[s].e_visa_count = 1
        /\ calls[s].visa_required_count >= 1
        /\ calls[s].total_countries > 7
        /\ calls[s].power_score = 49

\* C8: the countries listed under each category are in ascending
\* lexicographic order and are a permutation of the destinations of the
\* filtered rows with that requirement.
C8_GroupsSorted ==
    \A s \in Sessions :
        LET c   == calls[s]
            sel == c.selected_country
        IN  Returned(c) =>
                \A i \in DOMAIN c.list_components :
                    LET req     == c.requirement_counts[i].requirement
                        listed  == c.list_components[i].countries
                    IN  /\ \A j, k \in DOMAIN listed : j < k => LexLeq(listed[j], listed[k])
                        /\ \A d \in {df[n].destination : n \in DOMAIN df}
                                    \cup {listed[j] : j \in DOMAIN listed} :
                               Occurrences(listed, d)
                                   = Cardinality({n \in RowsWith(sel, req) : df[n].destination = d})

\* Zambia, Albania, Qatar of one category are listed as Albania, Qatar, Zambia.
C8_Witness ==
    \E s \in Sessions :
        /\ Returned(calls[s])
        /\ visa_free \in DOMAIN calls[s].categories
        /\ calls[s].categories[visa_free] = <<Zambia, Albania, Qatar>>
        /\ \E i \in DOMAIN calls[s].list_components :
               calls[s].list_components[i].countries = <<Albania, Qatar, Zambia>>
        /\ \E i \in DOMAIN calls[s].list_components :
               calls[s].list_components[i].countries = <<Niger, Nigeria>>

\* C9: the distribution lists exactly the distinct requirements of the
\* filtered rows, each once and with a count of at least 1; the group keys
\* are the same categories, and each group shows as many destinations as
\* its category's count.
C9_DistributionCoversCategories ==
    \A s \in Sessions :
        LET c   == calls[s]
            sel == c.selected_country
            rc  == c.requirement_counts
        IN  /\ Aggregated(c) =>
                /\ CategoriesOf(c) = {df[i].requirement : i \in FilteredRows(sel)}
                /\ \A i, j \in DOMAIN rc : rc[i].requirement = rc[j].requirement => i = j
                /\ \A i \in DOMAIN rc :
                       /\ rc[i].count >= 1
                       /\ rc[i].count = Cardinality(RowsWith(sel, rc[i].requirement))
            /\ Returned(c) =>
                /\ DOMAIN c.categories = CategoriesOf(c)
                /\ Len(c.list_components) = Len(rc)
                /\ \A i \in DOMAIN rc :
                       /\ Len(c.list_components[i].countries) = rc[i].count
                       /\ c.list_components[i].count = rc[i].count
                       /\ Len(c.categories[rc[i].requirement]) = rc[i].count

\* A category of df that the selection does not have is left out.
C9_Witness ==
    \E s \in Sessions :
        /\ Returned(calls[s])
        /\ Len(calls[s].requirement_counts) >= 2
        /\ \E i \in DOMAIN calls[s].requirement_counts :
               calls[s].requirement_counts[i].count >= 2
        /\ \E i \in DOMAIN df : df[i].requirement \notin CategoriesOf(calls[s])

\* C10: no filtered row is counted by two of the four counts, so the four
\* counts sum to at most total_countries and power_score is at most
\* total_countries.
C10_CountsDisjoint ==
    \A s \in Sessions :
        LET c   == calls[s]
            sel == c.selected_country
        IN  Aggregated(c) =>
                /\ \A i \in ElectronicRows(sel) :
                       df[i].requirement \notin {visa_free, visa_on_arrival, visa_required}
                /\ c.e_visa_count = Cardinality(ElectronicRows(sel))
                /\ c.visa_free_count + c.visa_on_arrival_count + c.e_visa_count
                       + c.visa_required_count <= c.total_countries
                /\ c.power_score <= 10 * c.total_countries

C10_Witness ==
    \E s \in Sessions :
        /\ Aggregated(calls[s])
        /\ calls[s].visa_free_count >= 1
        /\ calls[s].e_visa_count >= 1
        /\ calls[s].visa_required_count >= 1
        /\ calls[s].visa_free_count + calls[s].visa_on_arrival_count + calls[s].e_visa_count
               + calls[s].visa_required_count = calls[s].total_countries

\* C4: no step of update_output changes df or requirement_colors, and a
\* finished invocation has the outcome of every finished invocation with
\* the same selection, whether earlier or in another session.
C4_ResultDependsOnSelectionOnly ==
    [][phase = "serving" =>
          /\ df' = df
          /\ requirement_colors' = requirement_colors
          /\ \A s, t \in Sessions :
                 (/\ Finished(calls'[s])
                  /\ Finished(calls[t])
                  /\ calls'[s].selected_country = calls[t].selected_country)
                     => calls'[s] = calls[t]
          /\ \A s, t \in Sessions :
                 (/\ Finished(calls'[s])
                  /\ Finished(calls'[t])
                  /\ calls'[s].selected_country = calls'[t].selected_country)
                     => calls'[s] = calls'[t]]_vars

\* Two sessions hold a result for one selection while a third selection is
\* in flight or the table holds rows of other origins.
C4_Witness ==
    \E s, t \in Sessions :
        /\ s # t
        /\ Returned(calls[s])
        /\ Returned(calls[t])
        /\ calls[s].selected_country = calls[t].selected_country
        /\ calls[s].total_countries >= 2
        /\ Len(df) > calls[s].total_countries

====
